---- MODULE Spec2Model ----
(***************************************************************************)
(* A model of the record decoders of rinex-utils:                          *)
(*   - parse_RINEX2_obs_data   (python/rinex_utils/rinex2.py)              *)
(*   - parse_RINEX3_obs_data   (python/rinex_utils/rinex3.py)              *)
(*   - parse_sp3_data          (python/rinex_utils/sp3/sp3.py)             *)
(* The observation parsers are line-driven loops: every action is the code *)
(* that runs from one next(lines) call up to the next one.  The input      *)
(* file is produced line by line by the environment: at each next(lines)   *)
(* either one more line is delivered or the iterator is exhausted.         *)
(***************************************************************************)
EXTENDS Integers, Sequences, FiniteSets, TLC

VARIABLES
    parser,            \* entry point of this behaviour: "rinex2", "rinex3", "sp3"
    pc,                \* position of the parser: which next(lines) it waits in
    observations,      \* rinex2: argument `observations`
    system_obs_types,  \* rinex3: argument `system_obs_types`
    data,              \* local `data`: sat_id -> {'index', 'time', <obs_id>...}
    time,              \* local `time`
    epoch_index,       \* local `epoch_index`
    dt,                \* local `dt` of the current epoch line
    num_sats,          \* local `num_sats` of the current epoch line
    sat_ids,           \* rinex2: local `sat_ids`
    sat_k,             \* 1-based position of the for loop over the satellites
    acc,               \* rinex2: local `line` accumulated for one record
    nread,             \* number of lines delivered by the iterator so far
    err,               \* exception that left the parser, "" when none
    eof_at,            \* history: pc at which StopIteration was caught
    consumed,          \* history: lines read for the last decoded record
    written,           \* history: per key, the records of the file as written
    filepaths,         \* sp3: the parsed files (epochs, records), in order
    sat_ids_arg,       \* sp3: argument `sat_ids`
    merged,            \* sp3: result of parse_sp3_data(filepaths)
    doubled,           \* sp3: result of parse_sp3_data(filepaths + filepaths)
    seen,              \* history: the lines delivered to parse_RINEX3_obs_data
    obs_data,          \* rinex2: result of transform_values_from_RINEX2_obs
    ep_line,           \* epoch assembly: the fields of one epoch line
    ep_result,         \* epoch assembly: the datetime built from them
    sp3_line,          \* sp3 record: the four fields of one 'P' line
    sp3_result,        \* sp3 record: what _sp3_parse_position_and_clock returns
    file_lines,        \* file parsers: the lines of the file
    file_result,       \* file parsers: outcome of the parse_*_file call
    header_lines,      \* rinex3 header: argument `lines` of parse_RINEX3_header
    number_of_obs,     \* rinex3 header: local `number_of_obs`
    system_letter,     \* rinex3 header: local `system_letter`
    record_lines,      \* sp3: argument `record_lines` of parse_sp3_records
    parse_flags,       \* sp3: arguments parse_position and parse_velocity
    sp3_records,       \* sp3: what parse_sp3_records returns
    field_pair,        \* rinex2 field: two 16-character fields of a record
    field_vals         \* rinex2 field: what the record decoder stores for each

obsvars == <<parser, pc, observations, system_obs_types, data, time, epoch_index,
             dt, num_sats, sat_ids, sat_k, acc, nread, err, eof_at, consumed,
             written, seen, obs_data>>
sp3vars == <<filepaths, sat_ids_arg, merged, doubled>>
purevars == <<ep_line, ep_result, sp3_line, sp3_result, file_lines, file_result>>
hdrvars == <<header_lines, number_of_obs, system_letter>>
recvars == <<record_lines, parse_flags, sp3_records>>
fldvars == <<field_pair, field_vals>>
vars == <<obsvars, sp3vars, purevars, hdrvars, recvars, fldvars>>

\* ------------------------------------------------------------------ bounds
\* number of lines the data section of a RINEX 2 file may hold
MaxLines == 4
\* number of lines the data section of a RINEX 3 file may hold
MaxLines3 == 5
\* longest list of observation types of a RINEX 2 header
MaxObs == 5
\* number of epochs the SP3 files hold together
MaxN == 3
\* number of epochs of an SP3 file that is merged with a copy of itself
MaxCopy == 2

\* ------------------------------------------------------------- field values
\* decoded values are written as Python prints them: "1.0", "2.0", "nan"
NaN == "nan"
\* a 16-character field holding only spaces
Blank == "blank"
\* a single token that float() rejects
Bad == "bad"
\* three or more whitespace separated tokens (what an epoch line looks like)
Multi == "multi"
\* the field contents the environment writes into observation records
FieldVals == {Blank, "1.0", "2.0", Bad}

EmptyFcn == [x \in {} |-> 0]

\* ------------------------------------------------------------ RINEX 2 lines
\* number of 16-character fields of an 80-column line
FieldsPerLine == 5

G_1 == <<"G", " ", "1">>
G02 == <<"G", "0", "2">>
\* the satellite-ID text of an epoch line (columns 33..80, stripped) and of
\* a continuation line, as 3-character IDs
IdTexts == {<<>>, <<G_1>>, <<G_1, G02>>}
ContTexts == {<<G02>>}
EpochTimes == {10}
NumSats == {0, 1, 2}
\* the rows of values written on one physical line: the first two fields
\* take every value, the remaining three repeat the second
ObsRows == {<<f, g, g, g, g>> : f \in FieldVals, g \in FieldVals} \ {<<Blank, Blank, Blank, Blank, Blank>>}

EpochLines2 == [kind : {"epoch"}, t : EpochTimes, num_sats : NumSats, ids : IdTexts]
ContLines2 == [kind : {"cont"}, ids : ContTexts]
ObsLines2 == [kind : {"obs"}, fields : ObsRows]
BlankLine == [kind |-> "blank"]
Lines2 == EpochLines2 \cup ContLines2 \cup ObsLines2 \cup {BlankLine}

\* str.replace(' ', '0') on a satellite ID
ZeroFill(id) == [i \in DOMAIN id |-> IF id[i] = " " THEN "0" ELSE id[i]]

\* line[:3] and line[3:] of the satellite-ID text
First3(text) == IF text = <<>> THEN <<>> ELSE Head(text)
Rest3(text) == IF text = <<>> THEN <<>> ELSE Tail(text)

\* the while loop collecting sat_ids, run until it returns or needs a line
RECURSIVE SatIdLoop(_, _, _)
SatIdLoop(sids, text, n) ==
    IF Len(sids) >= n THEN [sat_ids |-> sids, need |-> FALSE]
    ELSE LET s2 == Append(sids, ZeroFill(First3(text)))
             t2 == Rest3(text)
         IN  IF t2 = <<>> /\ Len(s2) < n
             THEN [sat_ids |-> s2, need |-> TRUE]
             ELSE SatIdLoop(s2, t2, n)

\* the five 16-character fields of a physical line read as observation values
FieldsOf(l) ==
    CASE l.kind = "obs" -> l.fields
      [] l.kind = "blank" -> <<Blank, Blank, Blank, Blank, Blank>>
      [] l.kind = "cont" -> <<Blank, Blank, Bad, Blank, Blank>>
      [] l.kind = "epoch" -> <<Multi, Multi, IF l.ids = <<>> THEN Blank ELSE Bad, Blank, Blank>>

\* number of physical lines read for one satellite
num_lines_per_sat == 1 + (Len(observations) \div FieldsPerLine)

\* float(val_str) inside try/except
Float2(f) == IF f = Bad THEN NaN ELSE f

\* a new entry of data, and the append of time/index
NewSat2 == [index |-> <<>>, time |-> <<>>, obs |-> EmptyFcn]

\* BeginSat2 for a counter that is advanced when the epoch line is read
BeginSat2Advanced(d, sat_id, t, e) ==
    LET d1 == IF sat_id \in DOMAIN d THEN d ELSE d @@ (sat_id :> NewSat2)
    IN  [d1 EXCEPT ![sat_id].time = Append(@, t), ![sat_id].index = Append(@, e + 1)]

BeginSat2(d, sat_id, t, e) ==
    LET d1 == IF sat_id \in DOMAIN d THEN d ELSE d @@ (sat_id :> NewSat2)
    IN  [d1 EXCEPT ![sat_id].time = Append(@, t), ![sat_id].index = Append(@, e)]

\* data[sat_id][obs_id].append(val), creating the list when it is new
AppendObs2(sat, obs_id, val) ==
    IF obs_id \in DOMAIN sat.obs
    THEN [sat EXCEPT !.obs[obs_id] = Append(@, val)]
    ELSE [sat EXCEPT !.obs = @ @@ (obs_id :> <<val>>)]

\* the loop over enumerate(observations) decoding one accumulated record
RECURSIVE Decode2(_, _, _, _)
Decode2(sat, fields, obs, i) ==
    IF i > Len(obs) THEN sat
    ELSE IF fields[i] = Blank THEN Decode2(sat, fields, obs, i + 1)
    ELSE Decode2(AppendObs2(sat, obs[i], Float2(fields[i])), fields, obs, i + 1)

\* assert(False): some field of the record splits into more than two tokens
Asserts2(fields, obs) == \E i \in 1..Len(obs) : fields[i] = Multi

\* the history of the records of one key
Record(hist, key, e, fields) ==
    IF key \in DOMAIN hist
    THEN [hist EXCEPT ![key] = Append(@, [epoch |-> e, fields |-> fields])]
    ELSE hist @@ (key :> <<[epoch |-> e, fields |-> fields]>>)

\* observation types of the header, in its order
ObsIds == <<"C1", "L1", "P2", "L2", "D1", "S1">>

InitCommon ==
    /\ pc = "epoch"
    /\ data = EmptyFcn
    /\ time = <<>>
    /\ epoch_index = 0
    /\ dt = 0
    /\ num_sats = 0
    /\ sat_ids = <<>>
    /\ sat_k = 0
    /\ acc = <<>>
    /\ nread = 0
    /\ err = ""
    /\ eof_at = "none"
    /\ consumed = 0
    /\ written = EmptyFcn
    /\ seen = <<>>
    /\ obs_data = [status |-> "none"]

InitPureIdle ==
    /\ ep_line = [yy |-> 0, century |-> 0, sec |-> <<>>]
    /\ ep_result = [status |-> "none"]
    /\ sp3_line = <<>>
    /\ sp3_result = [status |-> "none"]
    /\ file_lines = <<>>
    /\ file_result = [status |-> "none"]

InitHdrIdle ==
    /\ header_lines = <<>>
    /\ number_of_obs = 0
    /\ system_letter = ""

InitFldIdle ==
    /\ field_pair = <<>>
    /\ field_vals = [status |-> "none"]

InitRecIdle ==
    /\ record_lines = <<>>
    /\ parse_flags = [parse_position |-> TRUE, parse_velocity |-> FALSE]
    /\ sp3_records = [status |-> "none"]

InitSp3Idle ==
    /\ filepaths = <<>>
    /\ sat_ids_arg = [all |-> TRUE, ids |-> {}]
    /\ merged = [status |-> "none"]
    /\ doubled = [status |-> "none"]

InitR2 ==
    /\ parser = "rinex2"
    /\ \E n \in 0..MaxObs : observations = SubSeq(ObsIds, 1, n)
    /\ system_obs_types = EmptyFcn
    /\ InitCommon
    /\ InitSp3Idle
    /\ InitPureIdle
    /\ InitHdrIdle
    /\ InitRecIdle
    /\ InitFldIdle

\* the state when the for loop reaches satellite k of sat_ids (or ends)
\* and runs up to its first next(lines)
ToSat2(sids, k, t) ==
    IF k > Len(sids)
    THEN /\ pc' = "epoch"
         /\ epoch_index' = epoch_index + 1
         /\ data' = data
         /\ sat_k' = 0
    ELSE /\ pc' = "record"
         /\ epoch_index' = epoch_index
         /\ data' = BeginSat2(data, sids[k], t, epoch_index)
         /\ sat_k' = k

\* lines 170-196: an epoch line is read
R2_EpochLine ==
    /\ parser = "rinex2" /\ pc = "epoch" /\ nread < MaxLines
    /\ \E l \in Lines2 :
        /\ nread' = nread + 1
        /\ IF l.kind # "epoch"
           THEN /\ pc' = "raised" /\ err' = "ValueError"
                /\ UNCHANGED <<data, time, epoch_index, dt, num_sats, sat_ids, sat_k>>
           ELSE LET r == SatIdLoop(<<>>, l.ids, l.num_sats)
                IN  /\ time' = Append(time, l.t)
                    /\ dt' = l.t
                    /\ num_sats' = l.num_sats
                    /\ sat_ids' = r.sat_ids
                    /\ err' = err
                    /\ IF r.need
                       THEN /\ pc' = "satids"
                            /\ UNCHANGED <<data, epoch_index, sat_k>>
                       ELSE ToSat2(r.sat_ids, 1, l.t)
    /\ acc' = <<>>
    /\ UNCHANGED <<parser, observations, system_obs_types, eof_at, consumed, written>>
    /\ UNCHANGED <<seen, obs_data>>
    /\ UNCHANGED <<sp3vars, purevars, hdrvars, recvars, fldvars>>

\* lines 193-196: a continuation line of the satellite-ID list is read
R2_SatIdLine ==
    /\ parser = "rinex2" /\ pc = "satids" /\ nread < MaxLines
    /\ \E l \in Lines2 :
        /\ nread' = nread + 1
        /\ IF l.kind \in {"epoch", "obs"}
           THEN /\ pc' = "raised" /\ err' = "AssertionError"
                /\ UNCHANGED <<data, epoch_index, sat_ids, sat_k>>
           ELSE LET text == IF l.kind = "blank" THEN <<>> ELSE l.ids
                    r == SatIdLoop(sat_ids, text, num_sats)
                IN  /\ sat_ids' = r.sat_ids
                    /\ err' = err
                    /\ IF r.need
                       THEN /\ pc' = "satids"
                            /\ UNCHANGED <<data, epoch_index, sat_k>>
                       ELSE ToSat2(r.sat_ids, 1, dt)
    /\ UNCHANGED <<time, dt, num_sats, acc>>
    /\ UNCHANGED <<parser, observations, system_obs_types, eof_at, consumed, written>>
    /\ UNCHANGED <<seen, obs_data>>
    /\ UNCHANGED <<sp3vars, purevars, hdrvars, recvars, fldvars>>

\* lines 208-229: one physical line of a satellite's record is read; with
\* the last of them the record is decoded and the for loop moves on
R2_ObsLine ==
    /\ parser = "rinex2" /\ pc = "record" /\ nread < MaxLines
    /\ \E l \in Lines2 :
        LET line == acc \o FieldsOf(l)
            got == Len(line) \div FieldsPerLine
            sat_id == sat_ids[sat_k]
        IN  /\ nread' = nread + 1
            /\ IF got < num_lines_per_sat
               THEN /\ acc' = line
                    /\ UNCHANGED <<pc, err, data, epoch_index, sat_k, consumed, written>>
               ELSE IF Asserts2(line, observations)
               THEN /\ pc' = "raised" /\ err' = "AssertionError"
                    /\ acc' = <<>>
                    /\ UNCHANGED <<data, epoch_index, sat_k, consumed, written>>
               ELSE LET d1 == [data EXCEPT ![sat_id] = Decode2(@, line, observations, 1)]
                    IN  /\ acc' = <<>>
                        /\ err' = err
                        /\ consumed' = got
                        /\ written' = Record(written, sat_id, epoch_index,
                                             SubSeq(line, 1, Len(observations)))
                        /\ IF sat_k + 1 > Len(sat_ids)
                           THEN /\ pc' = "epoch"
                                /\ epoch_index' = epoch_index + 1
                                /\ data' = d1
                                /\ sat_k' = 0
                           ELSE /\ pc' = "record"
                                /\ epoch_index' = epoch_index
                                /\ data' = BeginSat2(d1, sat_ids[sat_k + 1], dt, epoch_index)
                                /\ sat_k' = sat_k + 1
    /\ UNCHANGED <<time, dt, num_sats, sat_ids>>
    /\ UNCHANGED <<parser, observations, system_obs_types, eof_at>>
    /\ UNCHANGED <<seen, obs_data>>
    /\ UNCHANGED <<sp3vars, purevars, hdrvars, recvars, fldvars>>

\* lines 231-235: next(lines) raises StopIteration, which is caught; the
\* function returns what it has
R2_StopIteration ==
    /\ parser = "rinex2" /\ pc \in {"epoch", "satids", "record"}
    /\ pc' = "returned"
    /\ eof_at' = pc
    /\ UNCHANGED <<parser, observations, system_obs_types, data, time, epoch_index,
                   dt, num_sats, sat_ids, sat_k, acc, nread, err, consumed, written>>
    /\ UNCHANGED <<seen, obs_data>>
    /\ UNCHANGED <<sp3vars, purevars, hdrvars, recvars, fldvars>>

\* ------------------------------------------------ RINEX 2 value transform
CONSTELLATION_IDS == [G |-> "GPS", R |-> "GLONASS", E |-> "Galileo", S |-> "SBAS"]

OBSERVATION_DATATYPES ==
    [GPS |-> [C1 |-> [signal |-> "L1", name |-> "pseudorange"],
         P1 |-> [signal |-> "L1", name |-> "pseudorange"],
         L1 |-> [signal |-> "L1", name |-> "carrier"],
         D1 |-> [signal |-> "L1", name |-> "doppler"],
         S1 |-> [signal |-> "L1", name |-> "snr"],
         C2 |-> [signal |-> "L2", name |-> "pseudorange"],
         P2 |-> [signal |-> "L2", name |-> "pseudorange"],
         L2 |-> [signal |-> "L2", name |-> "carrier"],
         D2 |-> [signal |-> "L2", name |-> "doppler"],
         S2 |-> [signal |-> "L2", name |-> "snr"],
         C5 |-> [signal |-> "L5", name |-> "pseudorange"],
         P5 |-> [signal |-> "L5", name |-> "pseudorange"],
         L5 |-> [signal |-> "L5", name |-> "carrier"],
         D5 |-> [signal |-> "L5", name |-> "doppler"],
         S5 |-> [signal |-> "L5", name |-> "snr"]],
     GLONASS |-> [C1 |-> [signal |-> "L1", name |-> "pseudorange"],
         P1 |-> [signal |-> "L1", name |-> "pseudorange"],
         L1 |-> [signal |-> "L1", name |-> "carrier"],
         D1 |-> [signal |-> "L1", name |-> "doppler"],
         S1 |-> [signal |-> "L1", name |-> "snr"],
         C2 |-> [signal |-> "L2", name |-> "pseudorange"],
         P2 |-> [signal |-> "L2", name |-> "pseudorange"],
         L2 |-> [signal |-> "L2", name |-> "carrier"],
         D2 |-> [signal |-> "L2", name |-> "doppler"],
         S2 |-> [signal |-> "L2", name |-> "snr"]],
     Galileo |-> [C1 |-> [signal |-> "E1", name |-> "pseudorange"],
         L1 |-> [signal |-> "E1", name |-> "carrier"],
         D1 |-> [signal |-> "E1", name |-> "doppler"],
         S1 |-> [signal |-> "E1", name |-> "snr"],
         C5 |-> [signal |-> "E5a", name |-> "pseudorange"],
         L5 |-> [signal |-> "E5a", name |-> "carrier"],
         D5 |-> [signal |-> "E5a", name |-> "doppler"],
         S5 |-> [signal |-> "E5a", name |-> "snr"],
         C7 |-> [signal |-> "E5b", name |-> "pseudorange"],
         L7 |-> [signal |-> "E5b", name |-> "carrier"],
         D7 |-> [signal |-> "E5b", name |-> "doppler"],
         S7 |-> [signal |-> "E5b", name |-> "snr"],
         C8 |-> [signal |-> "E5ab", name |-> "pseudorange"],
         L8 |-> [signal |-> "E5ab", name |-> "carrier"],
         D8 |-> [signal |-> "E5ab", name |-> "doppler"],
         S8 |-> [signal |-> "E5ab", name |-> "snr"],
         C6 |-> [signal |-> "E6", name |-> "pseudorange"],
         L6 |-> [signal |-> "E6", name |-> "carrier"],
         D6 |-> [signal |-> "E6", name |-> "doppler"],
         S6 |-> [signal |-> "E6", name |-> "snr"]],
     SBAS |-> [C1 |-> [signal |-> "L1", name |-> "pseudorange"],
         L1 |-> [signal |-> "L1", name |-> "carrier"],
         D1 |-> [signal |-> "L1", name |-> "doppler"],
         S1 |-> [signal |-> "L1", name |-> "snr"],
         C5 |-> [signal |-> "L5", name |-> "pseudorange"],
         L5 |-> [signal |-> "L5", name |-> "carrier"],
         D5 |-> [signal |-> "L5", name |-> "doppler"],
         S5 |-> [signal |-> "L5", name |-> "snr"]]]

\* the keys of OBSERVATION_DATATYPES in the order of .items()
DatatypeKeys == <<"GPS", "GLONASS", "Galileo", "SBAS">>

\* rnx_sat.keys() of one entry of the parser's result
KeysOf(rnx_sat) == {"index", "time"} \cup DOMAIN rnx_sat.obs

\* rnx_sat[key]
ValuesOf(rnx_sat, key) ==
    IF key = "index" THEN rnx_sat.index
    ELSE IF key = "time" THEN rnx_sat.time
    ELSE rnx_sat.obs[key]

\* setattr(sat.signals[signal], name, values), creating the namespace first
SetSignal(signals, signal, name, values) ==
    IF signal \in DOMAIN signals
    THEN [signals EXCEPT ![signal] =
             [n \in DOMAIN @ \cup {name} |-> IF n = name THEN values ELSE @[n]]]
    ELSE signals @@ (signal :> (name :> values))

\* lines 259-264: the loop `for obs_name, mapping in
\* OBSERVATION_DATATYPES.items()` from its k-th item on; mapping['signal']
\* is a KeyError when `mapping` has no such key
RECURSIVE TransformLoop(_, _, _)
TransformLoop(sat, rnx_sat, k) ==
    IF k > Len(DatatypeKeys) \/ sat.raised THEN sat
    ELSE LET obs_name == DatatypeKeys[k]
             mapping == OBSERVATION_DATATYPES[obs_name]
         IN  IF obs_name \notin KeysOf(rnx_sat)
             THEN TransformLoop(sat, rnx_sat, k + 1)
             ELSE IF "signal" \notin DOMAIN mapping
             THEN [sat EXCEPT !.raised = TRUE]
             ELSE TransformLoop(
                      [sat EXCEPT !.signals = SetSignal(@, mapping.signal, mapping.name,
                                                        ValuesOf(rnx_sat, obs_name))],
                      rnx_sat, k + 1)

\* lines 254-269
transform_values_from_RINEX2_obs(rinex_data) ==
    LET sats == [sat_id \in DOMAIN rinex_data |->
                    TransformLoop([raised |-> FALSE, signals |-> EmptyFcn,
                                   time |-> rinex_data[sat_id].time,
                                   index |-> rinex_data[sat_id].index],
                                  rinex_data[sat_id], 1)]
    IN  IF \E sat_id \in DOMAIN sats : sats[sat_id].raised
        THEN [status |-> "raised", err |-> "KeyError"]
        ELSE [status |-> "ok", sats |-> sats]

\* parse_RINEX2_obs_file, line 300: the parser's result is transformed
R2_Transform ==
    /\ parser = "rinex2" /\ pc = "returned" /\ obs_data.status = "none"
    /\ obs_data' = transform_values_from_RINEX2_obs(data)
    /\ UNCHANGED <<parser, pc, observations, system_obs_types, data, time, epoch_index,
                   dt, num_sats, sat_ids, sat_k, acc, nread, err, eof_at, consumed,
                   written, seen>>
    /\ UNCHANGED <<sp3vars, purevars, hdrvars, recvars, fldvars>>

NextR2 ==
    R2_EpochLine \/ R2_SatIdLine \/ R2_ObsLine \/ R2_StopIteration \/ R2_Transform

SpecR2 == InitR2 /\ [][NextR2]_vars

\* ------------------------------------------------------------ RINEX 3 lines
G01 == <<"G", "0", "1">>
R01 == <<"R", "0", "1">>
\* line[0:3] of the satellite lines the environment writes
SatIds3 == {G01, G_1, R01}
\* the 16-character fields after the ID (a shorter line is padded with
\* spaces, so a row with trailing blanks is also the short line)
ObsRows3 == {<<f, g>> : f \in FieldVals, g \in FieldVals}
EpochLines3 == [kind : {"epoch"}, t : EpochTimes, num_sats : NumSats]
SatLines3 == [kind : {"sat"}, id : SatIds3, fields : ObsRows3]
Lines3 == EpochLines3 \cup SatLines3 \cup {BlankLine}
\* the header dictionaries the parser is called with
SysObsTypes ==
    {("G" :> g) : g \in {<<>>, <<"C1C">>, <<"C1C", "L1C">>}}
    \cup {("G" :> g) @@ ("R" :> <<"C1C">>) : g \in {<<"C1C">>, <<"C1C", "L1C">>}}

\* line[j * 16:(j + 1) * 16].strip() of the padded line
Field3(fields, j) == IF j <= Len(fields) THEN fields[j] ELSE Blank

\* a new entry of data: 'index' and one empty list per observation type
NewSat3(obs_types) ==
    [index |-> <<>>, time |-> <<>>,
     obs |-> [o \in {obs_types[j] : j \in 1..Len(obs_types)} |-> <<>>]]

\* float(obs_str) raises for some field of the record
Raises3(fields, obs_types) ==
    \E j \in 1..Len(obs_types) : Field3(fields, j) \in {Bad, Multi}

\* line[0:3] of a data line, which the satellite loop takes for the sat_id
Id3(l) ==
    IF l.kind = "sat" THEN l.id
    ELSE IF l.kind = "epoch" THEN <<">", " ", "2">>
    ELSE <<"LF">>

\* the 16-character fields of line[3:]
Fields3(l) ==
    IF l.kind = "sat" THEN l.fields
    ELSE IF l.kind = "epoch" THEN <<Multi, Multi>>
    ELSE <<>>

\* Lookup3 with a default: system_obs_types.get(system_letter, [])
Lookup3Default(sot, letter) ==
    IF letter \in DOMAIN sot
    THEN [raised |-> FALSE, obs_types |-> sot[letter]]
    ELSE [raised |-> FALSE, obs_types |-> <<>>]

\* obs_types = system_obs_types[system_letter]: KeyError for a missing key
Lookup3(sot, letter) ==
    IF letter \in DOMAIN sot
    THEN [raised |-> FALSE, obs_types |-> sot[letter]]
    ELSE [raised |-> TRUE, obs_types |-> <<>>]

\* LoopDone3 for a loop that runs once more: range(num_sats + 1)
LoopDone3OneMore(done, n) == done >= n + 1

\* `for i in range(num_sats)` is exhausted after `done` records
LoopDone3(done, n) == done >= n

\* what the history keeps of a delivered line, and where it was read
Seen3(l) ==
    [kind |-> l.kind, n |-> IF l.kind = "epoch" THEN l.num_sats ELSE 0,
     sys |-> Id3(l)[1], at |-> pc]

\* Decode3 with the blank-field handling of the RINEX 2 loop (`continue`)
RECURSIVE Decode3SkipBlank(_, _, _, _)
Decode3SkipBlank(sat, fields, obs_types, j) ==
    IF j > Len(obs_types) THEN sat
    ELSE IF Field3(fields, j) = Blank THEN Decode3SkipBlank(sat, fields, obs_types, j + 1)
    ELSE Decode3SkipBlank([sat EXCEPT !.obs[obs_types[j]] = Append(@, Field3(fields, j))],
                          fields, obs_types, j + 1)

\* the loop over enumerate(obs_types): a blank field appends nan
RECURSIVE Decode3(_, _, _, _)
Decode3(sat, fields, obs_types, j) ==
    IF j > Len(obs_types) THEN sat
    ELSE LET obs_str == Field3(fields, j)
             obs_val == IF obs_str # Blank THEN obs_str ELSE NaN
         IN  Decode3([sat EXCEPT !.obs[obs_types[j]] = Append(@, obs_val)],
                     fields, obs_types, j + 1)

InitR3 ==
    /\ parser = "rinex3"
    /\ observations = <<>>
    /\ system_obs_types \in SysObsTypes
    /\ InitCommon
    /\ InitSp3Idle
    /\ InitPureIdle
    /\ InitHdrIdle
    /\ InitRecIdle
    /\ InitFldIdle

\* lines 198-211: an epoch line is read
R3_EpochLine ==
    /\ parser = "rinex3" /\ pc = "epoch" /\ nread < MaxLines3
    /\ \E l \in Lines3 :
        /\ nread' = nread + 1
        /\ seen' = Append(seen, Seen3(l))
        /\ IF l.kind # "epoch"
           THEN /\ pc' = "raised" /\ err' = "AssertionError"
                /\ UNCHANGED <<time, epoch_index, dt, num_sats, sat_k>>
           ELSE /\ time' = Append(time, l.t)
                /\ dt' = l.t
                /\ num_sats' = l.num_sats
                /\ err' = err
                /\ sat_k' = 0
                /\ IF LoopDone3(0, l.num_sats)
                   THEN pc' = "epoch" /\ epoch_index' = epoch_index + 1
                   ELSE pc' = "record" /\ epoch_index' = epoch_index
    /\ UNCHANGED <<parser, observations, system_obs_types, data, sat_ids, acc,
                   eof_at, consumed, written, obs_data>>
    /\ UNCHANGED <<sp3vars, purevars, hdrvars, recvars, fldvars>>

\* lines 213-234: one satellite line is read and decoded
R3_SatLine ==
    /\ parser = "rinex3" /\ pc = "record" /\ nread < MaxLines3
    /\ \E l \in Lines3 :
        LET sat_id == Id3(l)
            found == Lookup3(system_obs_types, sat_id[1])
            obs_types == found.obs_types
            d1 == IF sat_id \in DOMAIN data THEN data
                  ELSE data @@ (sat_id :> NewSat3(obs_types))
            sat == Decode3(d1[sat_id], Fields3(l), obs_types, 1)
        IN  /\ nread' = nread + 1
            /\ seen' = Append(seen, Seen3(l))
            /\ IF found.raised
               THEN /\ pc' = "raised" /\ err' = "KeyError"
                    /\ UNCHANGED <<data, epoch_index, sat_k, consumed, written>>
               ELSE IF Raises3(Fields3(l), obs_types)
               THEN /\ pc' = "raised" /\ err' = "ValueError"
                    /\ UNCHANGED <<data, epoch_index, sat_k, consumed, written>>
               ELSE /\ data' = [d1 EXCEPT ![sat_id] =
                                   [sat EXCEPT !.index = Append(@, epoch_index)]]
                    /\ err' = err
                    /\ consumed' = 1
                    /\ written' = Record(written, sat_id, epoch_index,
                            [j \in 1..Len(obs_types) |-> Field3(Fields3(l), j)])
                    /\ IF LoopDone3(sat_k + 1, num_sats)
                       THEN /\ pc' = "epoch"
                            /\ epoch_index' = epoch_index + 1
                            /\ sat_k' = 0
                       ELSE /\ pc' = "record"
                            /\ epoch_index' = epoch_index
                            /\ sat_k' = sat_k + 1
    /\ UNCHANGED <<time, dt, num_sats, sat_ids, acc>>
    /\ UNCHANGED <<parser, observations, system_obs_types, eof_at, obs_data>>
    /\ UNCHANGED <<sp3vars, purevars, hdrvars, recvars, fldvars>>

\* lines 235-237: next(lines) raises StopIteration, which is caught; the
\* function returns what it has
R3_StopIteration ==
    /\ parser = "rinex3" /\ pc \in {"epoch", "record"}
    /\ pc' = "returned"
    /\ eof_at' = pc
    /\ UNCHANGED <<parser, observations, system_obs_types, data, time, epoch_index,
                   dt, num_sats, sat_ids, sat_k, acc, nread, err, consumed, written>>
    /\ UNCHANGED <<seen, obs_data>>
    /\ UNCHANGED <<sp3vars, purevars, hdrvars, recvars, fldvars>>

NextR3 == R3_EpochLine \/ R3_SatLine \/ R3_StopIteration

SpecR3 == InitR3 /\ [][NextR3]_vars

\* --------------------------------------------------------------- SP3 merge
\* what parse_sp3_file returns for one file is a list of epochs and a list
\* of records (vehicle -> tuple); a file is kept as the list of its pairs
EpochVals == {1, 2}
Vehicles == {"A", "B"}
T1 == <<"1.0", "1.0", "1.0", "1.0">>
T2 == <<"2.0", "2.0", "2.0", "2.0">>
Sp3Records ==
    {EmptyFcn, "A" :> T1, "A" :> T2, "B" :> T1, ("A" :> T1) @@ ("B" :> T1),
     ("A" :> T2) @@ ("B" :> T1)}
Sp3Entries == [epoch : EpochVals, record : Sp3Records]
\* nan * zeros((N, 4)), one row
NaNRow == <<NaN, NaN, NaN, NaN>>

RECURSIVE SeqsUpTo(_, _)
SeqsUpTo(S, n) ==
    IF n = 0 THEN {<<>>}
    ELSE LET shorter == SeqsUpTo(S, n - 1)
         IN  shorter \cup {Append(q, x) : q \in {r \in shorter : Len(r) = n - 1}, x \in S}

\* concatenate(epochs_list) and the records in the same order
RECURSIVE Flatten(_)
Flatten(files) == IF files = <<>> THEN <<>> ELSE Head(files) \o Flatten(Tail(files))

\* lines 119-126: the vehicles of the result
VehiclesOf(files, arg) ==
    LET all == UNION {DOMAIN (Flatten(files)[i].record) : i \in 1..Len(Flatten(files))}
    IN  IF arg.all THEN all ELSE all \cap arg.ids

\* FillRows without `offset += len(records)`
RECURSIVE FillRowsNoOffset(_, _, _, _)
FillRowsNoOffset(rows, files, offset, veh) ==
    IF files = <<>> THEN rows
    ELSE LET records == Head(files)
             filled == [r \in 1..Len(rows) |->
                          IF /\ r - offset \in 1..Len(records)
                             /\ veh \in DOMAIN records[r - offset].record
                          THEN records[r - offset].record[veh]
                          ELSE rows[r]]
         IN  FillRowsNoOffset(filled, Tail(files), offset, veh)

\* lines 132-140: the rows of one vehicle before sorting, filled file by
\* file at offset + i
RECURSIVE FillRows(_, _, _, _)
FillRows(rows, files, offset, veh) ==
    IF files = <<>> THEN rows
    ELSE LET records == Head(files)
             filled == [r \in 1..Len(rows) |->
                          IF /\ r - offset \in 1..Len(records)
                             /\ veh \in DOMAIN records[r - offset].record
                          THEN records[r - offset].record[veh]
                          ELSE rows[r]]
         IN  FillRows(filled, Tail(files), offset + Len(records), veh)

\* all orderings of a finite set
RECURSIVE Orderings(_)
Orderings(S) ==
    IF S = {} THEN {<<>>}
    ELSE UNION {{<<x>> \o t : t \in Orderings(S \ {x})} : x \in S}

\* argsort(all_epochs): numpy's default kind is not stable, so every
\* permutation that sorts the keys is a possible result
RECURSIVE SortedOrders(_, _)
SortedOrders(a, vals) ==
    IF vals = {} THEN {<<>>}
    ELSE LET v == CHOOSE x \in vals : \A y \in vals : x <= y
             group == {i \in 1..Len(a) : a[i] = v}
         IN  UNION {{h \o t : t \in SortedOrders(a, vals \ {v})} : h \in Orderings(group)}
ArgSorts(a) == SortedOrders(a, {a[i] : i \in 1..Len(a)})

\* KeepMask with a tolerance window of one unit instead of `> 0`
KeepMaskTolerance(sorted) ==
    [i \in 1..(IF Len(sorted) = 0 THEN 1 ELSE Len(sorted)) |->
        IF i = 1 THEN TRUE ELSE sorted[i] - sorted[i - 1] > 1]

\* concatenate(([1], diff(all_epochs[indices]) > 0)).astype(bool)
KeepMask(sorted) ==
    [i \in 1..(IF Len(sorted) = 0 THEN 1 ELSE Len(sorted)) |->
        IF i = 1 THEN TRUE ELSE sorted[i] - sorted[i - 1] > 0]

\* indices[mask]
RECURSIVE Masked(_, _, _)
Masked(indices, mask, i) ==
    IF i > Len(indices) THEN <<>>
    ELSE (IF mask[i] THEN <<indices[i]>> ELSE <<>>) \o Masked(indices, mask, i + 1)

\* parse_sp3_data with `perm` the result of argsort
ParseSp3Data(files, arg, perm) ==
    LET all == Flatten(files)
        N == Len(all)
        all_epochs == [i \in 1..N |-> all[i].epoch]
        vehicles == VehiclesOf(files, arg)
        rows == [veh \in vehicles |-> FillRows([r \in 1..N |-> NaNRow], files, 0, veh)]
        mask == KeepMask([i \in 1..N |-> all_epochs[perm[i]]])
        indices == Masked(perm, mask, 1)
    IN  IF Len(mask) # N
        THEN [status |-> "raised"]
        ELSE [status |-> "ok",
              indices |-> indices,
              all_epochs |-> [j \in 1..Len(indices) |-> all_epochs[indices[j]]],
              data |-> [veh \in vehicles |->
                          [j \in 1..Len(indices) |-> rows[veh][indices[j]]]]]

EpochsOf(files) == [i \in 1..Len(Flatten(files)) |-> Flatten(files)[i].epoch]

InitSp3 ==
    /\ parser = "sp3"
    /\ observations = <<>>
    /\ system_obs_types = EmptyFcn
    /\ InitCommon
    /\ \E es \in SeqsUpTo(Sp3Entries, MaxN) :
         \/ filepaths = <<es>>
         \/ \E k \in 0..Len(es) :
              filepaths = <<SubSeq(es, 1, k), SubSeq(es, k + 1, Len(es))>>
    /\ sat_ids_arg \in {[all |-> TRUE, ids |-> {}], [all |-> FALSE, ids |-> {"A"}]}
    /\ merged = [status |-> "none"]
    /\ doubled = [status |-> "none"]
    /\ InitPureIdle
    /\ InitHdrIdle
    /\ InitRecIdle
    /\ InitFldIdle

\* parse_sp3_data(filepaths)
Sp3Data ==
    /\ parser = "sp3" /\ merged.status = "none"
    /\ \E perm \in ArgSorts(EpochsOf(filepaths)) :
         merged' = ParseSp3Data(filepaths, sat_ids_arg, perm)
    /\ UNCHANGED <<filepaths, sat_ids_arg, doubled>>
    /\ UNCHANGED <<obsvars, purevars, hdrvars, recvars, fldvars>>

\* parse_sp3_data on two identical copies of the one file
Sp3DataTwice ==
    /\ parser = "sp3" /\ doubled.status = "none"
    /\ Len(filepaths) = 1 /\ Len(filepaths[1]) <= MaxCopy
    /\ \E perm \in ArgSorts(EpochsOf(filepaths \o filepaths)) :
         doubled' = ParseSp3Data(filepaths \o filepaths, sat_ids_arg, perm)
    /\ UNCHANGED <<filepaths, sat_ids_arg, merged>>
    /\ UNCHANGED <<obsvars, purevars, hdrvars, recvars, fldvars>>

NextSp3 == Sp3Data \/ Sp3DataTwice

SpecSp3 == InitSp3 /\ [][NextSp3]_vars

\* ---------------------------------------------------------- epoch assembly
\* The epoch fields that matter to the assemblers: the two-digit year of a
\* RINEX 2 or navigation record, the `century` argument, the four-digit year
\* of a RINEX 3 or SP3 line, and the seconds field split into whole seconds,
\* its first six decimals (as microseconds) and the decimals after the sixth
\* (one in the F11.7 field of RINEX, two in the F11.8 field of SP3).
\* The first six decimals are binary fractions, for which the double
\* arithmetic of `1e6 * (seconds % 1)` gives the decimal result.
YYs == 0..99
Centuries == {1900, 2000}
EpochInputs ==
    [yy : YYs, century : Centuries, year : {2020}, whole : {30},
     micro : {0, 250000, 500000}, rest : {<<0>>, <<7>>, <<0, 0>>, <<0, 3>>, <<5, 0>>}]

\* int(text) of a run of decimal digits
RECURSIVE IntOf(_)
IntOf(ds) == IF ds = <<>> THEN 0 ELSE 10 * IntOf(SubSeq(ds, 1, Len(ds) - 1)) + ds[Len(ds)]

\* YearOf with the pivot of the RINEX 2 format: 80..99 is 1980..1999
YearOfPivot(century, yy) == IF yy >= 80 THEN 1900 + yy ELSE 2000 + yy

\* YearOf that never leaves the century of `century`
YearOfWrapped(century, yy) == century + ((yy + 50) % 100) - 50

\* year = century + yy
YearOf(century, yy) == century + yy

\* int(1e6 * (seconds % 1)) of a seconds value with the decimals `micro`
\* followed by `rest`: int() drops what is below one microsecond
Microseconds(micro, rest) == micro

\* rinex2.py:171-180: line[16:25] holds the whole seconds and six decimals;
\* the seventh decimal (column 26) is read into `flag`
R2Epoch(e) ==
    [status |-> "ok", by |-> "rinex2", year |-> YearOf(e.century, e.yy),
     seconds |-> e.whole, microseconds |-> Microseconds(e.micro, <<>>)]

\* rinex3.py:200-208: line[19:29] holds the whole seconds and seven decimals
R3Epoch(e) ==
    [status |-> "ok", by |-> "rinex3", year |-> e.year,
     seconds |-> e.whole, microseconds |-> Microseconds(e.micro, e.rest)]

\* sp3.py:34-47: timestr[26:] are the two decimals after the sixth
Sp3Strptime(e) ==
    IF IntOf(e.rest) # 0
    THEN [status |-> "raised", by |-> "sp3", year |-> 0, seconds |-> 0,
          microseconds |-> 0]
    ELSE [status |-> "ok", by |-> "sp3", year |-> e.year,
          seconds |-> e.whole, microseconds |-> e.micro]

\* parse_rinex_nav.py:45-46: the seconds field has one decimal
NavEpoch(e) ==
    [status |-> "ok", by |-> "nav", year |-> YearOf(e.century, e.yy),
     seconds |-> e.whole, microseconds |-> Microseconds(e.micro, <<>>)]

InitEpoch ==
    /\ parser = "epoch"
    /\ observations = <<>>
    /\ system_obs_types = EmptyFcn
    /\ InitCommon
    /\ InitSp3Idle
    /\ ep_line \in EpochInputs
    /\ ep_result = [status |-> "none"]
    /\ sp3_line = <<>>
    /\ sp3_result = [status |-> "none"]
    /\ file_lines = <<>>
    /\ file_result = [status |-> "none"]
    /\ InitHdrIdle
    /\ InitRecIdle
    /\ InitFldIdle

\* the epoch line of a RINEX 2 observation record (one decimal after the sixth)
R2_Epoch ==
    /\ parser = "epoch" /\ ep_result.status = "none" /\ Len(ep_line.rest) = 1
    /\ ep_result' = R2Epoch(ep_line)
    /\ UNCHANGED <<ep_line, sp3_line, sp3_result, file_lines, file_result>>
    /\ UNCHANGED <<obsvars, sp3vars, hdrvars, recvars, fldvars>>

\* the epoch line of a RINEX 3 observation record
R3_Epoch ==
    /\ parser = "epoch" /\ ep_result.status = "none" /\ Len(ep_line.rest) = 1
    /\ ep_result' = R3Epoch(ep_line)
    /\ UNCHANGED <<ep_line, sp3_line, sp3_result, file_lines, file_result>>
    /\ UNCHANGED <<obsvars, sp3vars, hdrvars, recvars, fldvars>>

\* the '*' line of an SP3 file (two decimals after the sixth)
Sp3_Epoch ==
    /\ parser = "epoch" /\ ep_result.status = "none" /\ Len(ep_line.rest) = 2
    /\ ep_result' = Sp3Strptime(ep_line)
    /\ UNCHANGED <<ep_line, sp3_line, sp3_result, file_lines, file_result>>
    /\ UNCHANGED <<obsvars, sp3vars, hdrvars, recvars, fldvars>>

\* the epoch of a navigation record: its F5.1 seconds field is "30.0" or "30.5"
Nav_Epoch ==
    /\ parser = "epoch" /\ ep_result.status = "none"
    /\ ep_line.rest = <<0>> /\ ep_line.micro \in {0, 500000}
    /\ ep_result' = NavEpoch(ep_line)
    /\ UNCHANGED <<ep_line, sp3_line, sp3_result, file_lines, file_result>>
    /\ UNCHANGED <<obsvars, sp3vars, hdrvars, recvars, fldvars>>

NextEpoch == R2_Epoch \/ R3_Epoch \/ Sp3_Epoch \/ Nav_Epoch

SpecEpoch == InitEpoch /\ [][NextEpoch]_vars

\* -------------------------------------------------------------- SP3 records
\* An F14.6 field of a 'P' line is a text that float() rejects, or a number,
\* kept as its distance above 999999.000000 in units of 1e-6 (the values
\* themselves exceed the integers of the model checker).
\* nan_value = 999999.999999, that is 999999 units above 999999.000000
NanValue == 999999
\* eps = 1e-3
Eps == 1000
Num(v) == [num |-> TRUE, v |-> v]
BadField == [num |-> FALSE, v |-> 0]
\* fields at and around the distances eps and 1.01 * eps from nan_value
NearSentinel ==
    {Num(NanValue + d) : d \in {0, 0 - 999, 0 - Eps, Eps, 0 - (Eps * 101) \div 100,
                                (Eps * 101) \div 100}}
\* 999999.000000 and 999000.000000 are ordinary values
Sp3Fields == NearSentinel \cup {Num(0), Num(0 - 999000000), BadField}
Sp3Lines ==
    [veh : {"G01"}, x : Sp3Fields, y : {Num(0), Num(NanValue)},
     z : {Num(0), BadField}, c : Sp3Fields]

Abs(x) == IF x < 0 THEN 0 - x ELSE x

\* _sp3_test_nan(x, nan_value=999999.999999, eps=1e-3)
Sp3TestNan(x) == Abs(x - NanValue) < Eps

\* nan, or the value times `scale` (the product is kept as its two factors)
Sp3Value(f, scale) ==
    IF Sp3TestNan(f.v) THEN [nan |-> TRUE, v |-> 0, scale |-> scale]
    ELSE [nan |-> FALSE, v |-> f.v, scale |-> scale]

\* _sp3_parse_position_and_clock(line): float() of the four fields first
Sp3ParsePositionAndClock(line) ==
    IF ~(line.x.num /\ line.y.num /\ line.z.num /\ line.c.num)
    THEN [status |-> "raised", err |-> "ValueError"]
    ELSE [status |-> "ok", veh_id |-> line.veh,
          x |-> Sp3Value(line.x, 1000), y |-> Sp3Value(line.y, 1000),
          z |-> Sp3Value(line.z, 1000), clock |-> Sp3Value(line.c, 1)]

InitSp3Rec ==
    /\ parser = "sp3rec"
    /\ observations = <<>>
    /\ system_obs_types = EmptyFcn
    /\ InitCommon
    /\ InitSp3Idle
    /\ ep_line = [yy |-> 0, century |-> 0, sec |-> <<>>]
    /\ ep_result = [status |-> "none"]
    /\ sp3_line \in Sp3Lines
    /\ sp3_result = [status |-> "none"]
    /\ file_lines = <<>>
    /\ file_result = [status |-> "none"]
    /\ InitHdrIdle
    /\ InitRecIdle
    /\ InitFldIdle

\* parse_sp3_records, lines 78-80: a 'P' line is decoded
Sp3_Record ==
    /\ parser = "sp3rec" /\ sp3_result.status = "none"
    /\ sp3_result' = Sp3ParsePositionAndClock(sp3_line)
    /\ UNCHANGED <<ep_line, ep_result, sp3_line, file_lines, file_result>>
    /\ UNCHANGED <<obsvars, sp3vars, hdrvars, recvars, fldvars>>

NextSp3Rec == Sp3_Record

SpecSp3Rec == InitSp3Rec /\ [][NextSp3Rec]_vars

\* ------------------------------------------------------------ file parsers
\* The parse_*_file functions read all lines, cut the header off and call
\* the header parser and then the data parser.  A line of a file is one of:
\*   "types"      the first line of an observation-type declaration
\*                ('# / TYPES OF OBSERV' or 'SYS / # / OBS TYPES', with a count)
\*   "types_cont" a continuation line of it (blank count)
\*   "other"      a COMMENT header line
\*   "end"        the 'END OF HEADER' line
\*   "data"       any line of the data section
\* The run of the data parsers themselves is SpecR2 and SpecR3; here a
\* result with status "data" says the data parser was called with obs_lines.
MaxFile == 4
LineKinds == {"types", "types_cont", "other", "end", "data"}
Files == SeqsUpTo(LineKinds, MaxFile)

\* `for i, line in enumerate(lines): if line.find('END OF HEADER') >= 0: break`
\* leaves i at the first such line, or at the last line; lines[:i + 1]
HeaderLines(lines) ==
    LET ends == {j \in 1..Len(lines) : lines[j] = "end"}
        i == IF ends = {} THEN Len(lines) ELSE CHOOSE j \in ends : \A k \in ends : j <= k
    IN  SubSeq(lines, 1, i)

\* lines[i + 1:]
ObsLines(lines) == SubSeq(lines, Len(HeaderLines(lines)) + 1, Len(lines))

\* parse_RINEX2_header: `obs_types` exists once a line with a count was read;
\* a continuation line before that fails on `header.obs_types += ...`
RECURSIVE parse_RINEX2_header(_, _)
parse_RINEX2_header(lines, has) ==
    IF lines = <<>> THEN [raised |-> FALSE, has_obs_types |-> has]
    ELSE IF Head(lines) = "types" THEN parse_RINEX2_header(Tail(lines), TRUE)
    ELSE IF Head(lines) = "types_cont" /\ ~has
         THEN [raised |-> TRUE, has_obs_types |-> FALSE]
    ELSE parse_RINEX2_header(Tail(lines), has)

\* parse_RINEX3_header: header['system_obs_types'] = {} is set before the
\* first line is read; the result tells whether the key exists and whether
\* the dictionary has an entry; int(line[3:6]) fails on a blank count
RECURSIVE parse_RINEX3_header(_, _)
parse_RINEX3_header(lines, declared) ==
    IF lines = <<>>
    THEN [raised |-> FALSE, has_system_obs_types |-> TRUE, declared |-> declared]
    ELSE IF Head(lines) = "types" THEN parse_RINEX3_header(Tail(lines), TRUE)
    ELSE IF Head(lines) = "types_cont"
         THEN [raised |-> TRUE, has_system_obs_types |-> TRUE, declared |-> declared]
    ELSE parse_RINEX3_header(Tail(lines), declared)

Outcome(by, status, exc, lines) ==
    [by |-> by, status |-> status, err |-> exc,
     header_lines |-> IF status \in {"data", "header"} THEN HeaderLines(lines) ELSE <<>>,
     obs_lines |-> IF status = "data" THEN ObsLines(lines) ELSE <<>>]

\* parse_RINEX2_obs_file up to the call of parse_RINEX2_obs_data
parse_RINEX2_obs_file(lines) ==
    IF lines = <<>> THEN Outcome("rinex2", "raised", "UnboundLocalError", lines)
    ELSE LET header == parse_RINEX2_header(HeaderLines(lines), FALSE)
         IN  IF header.raised THEN Outcome("rinex2", "raised", "AttributeError", lines)
             ELSE IF ~header.has_obs_types
             THEN Outcome("rinex2", "raised", "HeaderError", lines)
             ELSE Outcome("rinex2", "data", "", lines)

\* parse_RINEX3_obs_file up to the call of parse_RINEX3_obs_data
parse_RINEX3_obs_file(lines) ==
    IF lines = <<>> THEN Outcome("rinex3", "raised", "UnboundLocalError", lines)
    ELSE LET header == parse_RINEX3_header(HeaderLines(lines), FALSE)
         IN  IF header.raised THEN Outcome("rinex3", "raised", "ValueError", lines)
             ELSE IF ~header.has_system_obs_types
             THEN Outcome("rinex3", "raised", "HeaderError", lines)
             ELSE Outcome("rinex3", "data", "", lines)

\* parse_RINEX3_clk_file up to the call of parse_RINEX3_clk_data
parse_RINEX3_clk_file(lines) ==
    IF Len(lines) = 0 THEN Outcome("clk", "raised", "EmptyFile", lines)
    ELSE LET header == parse_RINEX3_header(HeaderLines(lines), FALSE)
         IN  IF header.raised THEN Outcome("clk", "raised", "ValueError", lines)
             ELSE Outcome("clk", "data", "", lines)

\* parse_sp3_file up to the call of parse_sp3_header
parse_sp3_file(lines) ==
    IF lines = <<>> THEN Outcome("sp3", "raised", "EmptyFile", lines)
    ELSE Outcome("sp3", "header", "", lines)

InitFile ==
    /\ parser = "file"
    /\ observations = <<>>
    /\ system_obs_types = EmptyFcn
    /\ InitCommon
    /\ InitSp3Idle
    /\ ep_line = [yy |-> 0, century |-> 0, sec |-> <<>>]
    /\ ep_result = [status |-> "none"]
    /\ sp3_line = <<>>
    /\ sp3_result = [status |-> "none"]
    /\ file_lines \in Files
    /\ file_result = [status |-> "none"]
    /\ InitHdrIdle
    /\ InitRecIdle
    /\ InitFldIdle

R2_ObsFile ==
    /\ parser = "file" /\ file_result.status = "none"
    /\ file_result' = parse_RINEX2_obs_file(file_lines)
    /\ UNCHANGED <<ep_line, ep_result, sp3_line, sp3_result, file_lines>>
    /\ UNCHANGED <<obsvars, sp3vars, hdrvars, recvars, fldvars>>

R3_ObsFile ==
    /\ parser = "file" /\ file_result.status = "none"
    /\ file_result' = parse_RINEX3_obs_file(file_lines)
    /\ UNCHANGED <<ep_line, ep_result, sp3_line, sp3_result, file_lines>>
    /\ UNCHANGED <<obsvars, sp3vars, hdrvars, recvars, fldvars>>

Clk_File ==
    /\ parser = "file" /\ file_result.status = "none"
    /\ file_result' = parse_RINEX3_clk_file(file_lines)
    /\ UNCHANGED <<ep_line, ep_result, sp3_line, sp3_result, file_lines>>
    /\ UNCHANGED <<obsvars, sp3vars, hdrvars, recvars, fldvars>>

Sp3_File ==
    /\ parser = "file" /\ file_result.status = "none"
    /\ file_result' = parse_sp3_file(file_lines)
    /\ UNCHANGED <<ep_line, ep_result, sp3_line, sp3_result, file_lines>>
    /\ UNCHANGED <<obsvars, sp3vars, hdrvars, recvars, fldvars>>

NextFile == R2_ObsFile \/ R3_ObsFile \/ Clk_File \/ Sp3_File

SpecFile == InitFile /\ [][NextFile]_vars

\* ------------------------------------------------- both observation parsers
\* parse_RINEX2_obs_data or parse_RINEX3_obs_data, on any input
InitObs == InitR2 \/ InitR3
NextObs == NextR2 \/ NextR3
SpecObs == InitObs /\ [][NextObs]_vars

\* ------------------------------------------------------- RINEX 3 header
\* parse_RINEX3_header reads its lines with next(lines): at the top of the
\* `while True` loop and inside the continuation loop of a
\* 'SYS / # / OBS TYPES' declaration.  The argument is a finite list, and
\* `nread` is the position of the iterator in it.
MaxHdr == 3
\* line[6:60].split() of a declaration line
HdrObs == {<<>>, <<"C1C">>, <<"C1C", "L1C">>}
\* the first line of a declaration: system letter and count in line[0:6]
TypesLines3 ==
    [label : {"SYS / # / OBS TYPES"}, sys : {"G"}, has_count : {TRUE},
     count : {1, 2, 3}, obs : HdrObs]
\* a continuation line: line[0:6] is blank
ContLines3 ==
    [label : {"SYS / # / OBS TYPES"}, sys : {""}, has_count : {FALSE},
     count : {0}, obs : HdrObs]
CommentLine ==
    [label |-> "COMMENT", sys |-> "", has_count |-> FALSE, count |-> 0, obs |-> <<>>]
HeaderLines3 == TypesLines3 \cup ContLines3 \cup {CommentLine}

\* header['system_obs_types'][system_letter] += obs, creating the list first
AddObs(sot, letter, obs) ==
    IF letter \in DOMAIN sot THEN [sot EXCEPT ![letter] = @ \o obs]
    ELSE sot @@ (letter :> obs)

\* ContNext for a loop that looks at the current line again
ContPeek(n) == n

\* line = next(lines) of the continuation loop: the iterator moves on
ContNext(n) == n + 1

InitHdr ==
    /\ parser = "header3"
    /\ pc = "label"
    /\ observations = <<>>
    /\ system_obs_types = EmptyFcn
    /\ data = EmptyFcn
    /\ time = <<>>
    /\ epoch_index = 0
    /\ dt = 0
    /\ num_sats = 0
    /\ sat_ids = <<>>
    /\ sat_k = 0
    /\ acc = <<>>
    /\ nread = 0
    /\ err = ""
    /\ eof_at = "none"
    /\ consumed = 0
    /\ written = EmptyFcn
    /\ seen = <<>>
    /\ obs_data = [status |-> "none"]
    /\ InitSp3Idle
    /\ InitPureIdle
    /\ header_lines \in SeqsUpTo(HeaderLines3, MaxHdr)
    /\ number_of_obs = 0
    /\ system_letter = ""
    /\ InitRecIdle
    /\ InitFldIdle

\* lines 97-163: a line is read at the top of the `while True` loop
Hdr_Line ==
    /\ parser = "header3" /\ pc = "label" /\ nread < Len(header_lines)
    /\ LET line == header_lines[nread + 1]
       IN  /\ nread' = nread + 1
           /\ IF line.label # "SYS / # / OBS TYPES"
              THEN UNCHANGED <<pc, err, system_obs_types, number_of_obs, system_letter>>
              ELSE IF ~line.has_count
              THEN /\ pc' = "raised" /\ err' = "ValueError"
                   /\ system_letter' = line.sys
                   /\ UNCHANGED <<system_obs_types, number_of_obs>>
              ELSE /\ system_letter' = line.sys
                   /\ system_obs_types' = AddObs(system_obs_types, line.sys, line.obs)
                   /\ number_of_obs' = line.count - Len(line.obs)
                   /\ pc' = IF line.count - Len(line.obs) > 0 THEN "cont" ELSE "label"
                   /\ err' = err
    /\ UNCHANGED <<parser, observations, data, time, epoch_index, dt, num_sats, sat_ids,
                   sat_k, acc, eof_at, consumed, written, seen, obs_data, header_lines>>
    /\ UNCHANGED <<sp3vars, purevars, recvars, fldvars>>

\* lines 135-140: a line is read inside `while number_of_obs > 0`
Hdr_ContLine ==
    /\ parser = "header3" /\ pc = "cont" /\ nread < Len(header_lines)
    /\ LET line == header_lines[nread + 1]
       IN  /\ nread' = ContNext(nread)
           /\ IF line.label # "SYS / # / OBS TYPES"
              THEN /\ pc' = "raised" /\ err' = "AssertionError"
                   /\ UNCHANGED <<system_obs_types, number_of_obs>>
              ELSE /\ system_obs_types' = AddObs(system_obs_types, system_letter, line.obs)
                   /\ number_of_obs' = number_of_obs - Len(line.obs)
                   /\ pc' = IF number_of_obs - Len(line.obs) > 0 THEN "cont" ELSE "label"
                   /\ err' = err
    /\ UNCHANGED <<parser, observations, data, time, epoch_index, dt, num_sats, sat_ids,
                   sat_k, acc, eof_at, consumed, written, seen, obs_data, header_lines,
                   system_letter>>
    /\ UNCHANGED <<sp3vars, purevars, recvars, fldvars>>

\* lines 164-166: next(lines) raises StopIteration, in either loop; it is
\* caught and the header is returned
Hdr_StopIteration ==
    /\ parser = "header3" /\ pc \in {"label", "cont"} /\ nread = Len(header_lines)
    /\ pc' = "returned"
    /\ eof_at' = pc
    /\ UNCHANGED <<parser, observations, system_obs_types, data, time, epoch_index, dt,
                   num_sats, sat_ids, sat_k, acc, nread, err, consumed, written, seen,
                   obs_data>>
    /\ UNCHANGED <<sp3vars, purevars, hdrvars, recvars, fldvars>>

NextHdr == Hdr_Line \/ Hdr_ContLine \/ Hdr_StopIteration

\* The three line-driven functions run to their end: the interpreter keeps
\* executing the function that was called.
InitTerm == InitObs \/ InitHdr
NextTerm == NextObs \/ NextHdr
SpecTerm == InitTerm /\ [][NextTerm]_vars /\ WF_vars(NextTerm)

\* ------------------------------------------------- RINEX 2 record fields
\* One 16-character field of an observation record is a value column
\* (F14.3), the loss-of-lock indicator (column 15) and the signal strength
\* (column 16).  Fields are written character by character; the value
\* column is shortened to four characters, of which the last is column 14.
ValueColumns ==
    {<<" ", " ", " ", " ">>, <<" ", "1", ".", "0">>, <<" ", "2", ".", "5">>,
     <<"1", ".", "0", " ">>, <<" ", " ", " ", "x">>}
LLIs == {" ", "0", "1"}
SSIs == {" ", "7", "8"}
Fields16 == {v \o <<l, s>> : v \in ValueColumns, l \in LLIs, s \in SSIs}
\* the value column of a field: everything but its last two characters
ValueColumn(f) == SubSeq(f, 1, Len(f) - 2)

\* str.strip()
RECURSIVE Strip(_)
Strip(s) ==
    IF s = <<>> THEN s
    ELSE IF Head(s) = " " THEN Strip(Tail(s))
    ELSE IF s[Len(s)] = " " THEN Strip(SubSeq(s, 1, Len(s) - 1))
    ELSE s

\* str.split(): the whitespace separated tokens
RECURSIVE SplitFrom(_, _, _, _)
SplitFrom(s, i, cur, out) ==
    IF i > Len(s) THEN IF cur = <<>> THEN out ELSE Append(out, cur)
    ELSE IF s[i] = " "
         THEN SplitFrom(s, i + 1, <<>>, IF cur = <<>> THEN out ELSE Append(out, cur))
         ELSE SplitFrom(s, i + 1, Append(cur, s[i]), out)
Split(s) == SplitFrom(s, 1, <<>>, <<>>)

DigitValue == ("0" :> 0) @@ ("1" :> 1) @@ ("2" :> 2) @@ ("3" :> 3) @@ ("4" :> 4)
              @@ ("5" :> 5) @@ ("6" :> 6) @@ ("7" :> 7) @@ ("8" :> 8) @@ ("9" :> 9)
RECURSIVE DigitsValue(_)
DigitsValue(s) ==
    IF s = <<>> THEN 0
    ELSE 10 * DigitsValue(SubSeq(s, 1, Len(s) - 1)) + DigitValue[s[Len(s)]]
\* the first three digits after the point, as thousandths
Thousandths(s) ==
    DigitsValue(SubSeq(s \o <<"0", "0", "0">>, 1, 3))

\* float(val_str) inside try/except, in thousandths; anything float()
\* rejects becomes nan
FloatOrNan(tok) ==
    LET dots == {i \in 1..Len(tok) : tok[i] = "."}
        digits == {i \in 1..Len(tok) : tok[i] \in DOMAIN DigitValue}
        dot == IF dots = {} THEN Len(tok) + 1 ELSE CHOOSE i \in dots : TRUE
    IN  IF dots \cup digits = 1..Len(tok) /\ Cardinality(dots) <= 1 /\ digits # {}
        THEN [kind |-> "value",
              val |-> 1000 * DigitsValue(SubSeq(tok, 1, dot - 1))
                      + Thousandths(SubSeq(tok, dot + 1, Len(tok)))]
        ELSE [kind |-> "nan", val |-> 0]

\* what the loop over enumerate(observations) does with one field: skip it,
\* fail the assertion, or append a value
DecodeField2(f) ==
    LET val_str == Strip(f)
    IN  IF val_str = <<>> THEN [kind |-> "continue", val |-> 0]
        ELSE IF Len(Split(val_str)) > 2 THEN [kind |-> "AssertionError", val |-> 0]
        ELSE FloatOrNan(Split(val_str)[1])

InitField ==
    /\ parser = "field"
    /\ observations = <<>>
    /\ system_obs_types = EmptyFcn
    /\ InitCommon
    /\ InitSp3Idle
    /\ InitPureIdle
    /\ InitHdrIdle
    /\ InitRecIdle
    /\ field_pair \in {p \in Fields16 \X Fields16 : ValueColumn(p[1]) = ValueColumn(p[2])}
    /\ field_vals = [status |-> "none"]

\* the same field position of two records is decoded
R2_Field ==
    /\ parser = "field" /\ field_vals.status = "none"
    /\ field_vals' = [status |-> "done", a |-> DecodeField2(field_pair[1]),
                      b |-> DecodeField2(field_pair[2])]
    /\ UNCHANGED <<field_pair>>
    /\ UNCHANGED <<obsvars, sp3vars, purevars, hdrvars, recvars>>

NextField == R2_Field

SpecField == InitField /\ [][NextField]_vars

\* ------------------------------------------------------ parse_sp3_records
\* number of record lines of an SP3 file
MaxRec == 4
\* '*' lines: the epoch text, one of them with sub-microsecond digits
StarLines ==
    [kind : {"*"},
     e : [yy : {20}, century : {2000}, year : {2020}, whole : {0, 30}, micro : {0},
          rest : {<<0>>}]
         \cup [yy : {20}, century : {2000}, year : {2020}, whole : {0}, micro : {0},
               rest : {<<7>>}]]
\* 'P' and 'V' lines of two vehicles; one 'P' line has a field float() rejects
PosLines ==
    [kind : {"P"}, veh : {"G01", "G02"}, x : {Num(1)}, y : {Num(0)}, z : {Num(0)},
     c : {Num(0)}]
    \cup [kind : {"P"}, veh : {"G01"}, x : {BadField}, y : {Num(0)}, z : {Num(0)},
          c : {Num(0)}]
VelLines ==
    [kind : {"V"}, veh : {"G01", "G02"}, x : {Num(2)}, y : {Num(0)}, z : {Num(0)},
     c : {Num(0)}]
\* any other line ('EP', 'EV', 'EOF', a comment)
OtherLine == [kind |-> "other"]
RecordLines == StarLines \cup PosLines \cup VelLines \cup {OtherLine}

\* lines 75-76 for an epoch list that is appended to alone
StarLineEpochsOnly(r, t) == [r EXCEPT !.epochs = Append(@, t)]

\* lines 75-76: epochs.append(...); records.append({})
StarLine(r, t) ==
    [r EXCEPT !.epochs = Append(@, t), !.records = Append(@, EmptyFcn)]

\* the tuple (x, y, z, c) of a parsed 'P' or 'V' line
TupleOf(p) == <<p.x, p.y, p.z, p.clock>>

\* records[-1][veh_id] = (x, y, z, c)
StoreTuple(r, veh_id, t) ==
    [r EXCEPT !.records[Len(r.records)] = (veh_id :> t) @@ @]

\* the line is one the `elif` chain parses as a position or a velocity
Parsed(l, flags) ==
    \/ l.kind = "P" /\ flags.parse_position
    \/ l.kind = "V" /\ flags.parse_velocity

InitRecords ==
    /\ parser = "sp3records"
    /\ pc = "loop"
    /\ observations = <<>>
    /\ system_obs_types = EmptyFcn
    /\ data = EmptyFcn /\ time = <<>> /\ epoch_index = 0 /\ dt = 0
    /\ num_sats = 0 /\ sat_ids = <<>> /\ sat_k = 0 /\ acc = <<>>
    /\ nread = 0 /\ err = "" /\ eof_at = "none" /\ consumed = 0
    /\ written = EmptyFcn /\ seen = <<>> /\ obs_data = [status |-> "none"]
    /\ InitSp3Idle
    /\ InitPureIdle
    /\ InitHdrIdle
    /\ InitFldIdle
    /\ record_lines \in SeqsUpTo(RecordLines, MaxRec)
    /\ parse_flags \in [parse_position : BOOLEAN, parse_velocity : BOOLEAN]
    /\ sp3_records = [status |-> "running", epochs |-> <<>>, records |-> <<>>]

\* one pass of `for line in record_lines`
Rec_Line ==
    /\ parser = "sp3records" /\ pc = "loop" /\ nread < Len(record_lines)
    /\ nread' = nread + 1
    /\ LET line == record_lines[nread + 1]
       IN  IF line.kind = "*"
           THEN LET t == Sp3Strptime(line.e)
                IN  IF t.status = "raised"
                    THEN /\ pc' = "raised" /\ err' = "ValueError"
                         /\ UNCHANGED sp3_records
                    ELSE /\ sp3_records' = StarLine(sp3_records, t)
                         /\ UNCHANGED <<pc, err>>
           ELSE IF Parsed(line, parse_flags)
           THEN LET p == Sp3ParsePositionAndClock(line)
                IN  IF p.status = "raised"
                    THEN /\ pc' = "raised" /\ err' = "ValueError"
                         /\ UNCHANGED sp3_records
                    ELSE IF sp3_records.records = <<>>
                    THEN /\ pc' = "raised" /\ err' = "IndexError"
                         /\ UNCHANGED sp3_records
                    ELSE /\ sp3_records' = StoreTuple(sp3_records, p.veh_id, TupleOf(p))
                         /\ UNCHANGED <<pc, err>>
           ELSE UNCHANGED <<pc, err, sp3_records>>
    /\ UNCHANGED <<parser, observations, system_obs_types, data, time, epoch_index,
                   dt, num_sats, sat_ids, sat_k, acc, eof_at, consumed, written,
                   seen, obs_data, record_lines, parse_flags>>
    /\ UNCHANGED <<sp3vars, purevars, hdrvars, fldvars>>

\* return epochs, records
Rec_Return ==
    /\ parser = "sp3records" /\ pc = "loop" /\ nread = Len(record_lines)
    /\ pc' = "returned"
    /\ sp3_records' = [sp3_records EXCEPT !.status = "ok"]
    /\ UNCHANGED <<parser, observations, system_obs_types, data, time, epoch_index,
                   dt, num_sats, sat_ids, sat_k, acc, nread, err, eof_at, consumed,
                   written, seen, obs_data, record_lines, parse_flags>>
    /\ UNCHANGED <<sp3vars, purevars, hdrvars, fldvars>>

\* parse_sp3_file calls parse_sp3_records with its default flags
DefaultFlags == [parse_position |-> TRUE, parse_velocity |-> FALSE]

\* parse_sp3_to_ndarray after parse_sp3_file: assert(len(records) == N)
Rec_ToNdarray ==
    /\ parser = "sp3records" /\ pc = "returned" /\ parse_flags = DefaultFlags
    /\ IF Len(sp3_records.records) = Len(sp3_records.epochs)
       THEN pc' = "ndarray" /\ err' = err
       ELSE pc' = "raised" /\ err' = "AssertionError"
    /\ UNCHANGED <<parser, observations, system_obs_types, data, time, epoch_index,
                   dt, num_sats, sat_ids, sat_k, acc, nread, eof_at, consumed,
                   written, seen, obs_data>>
    /\ UNCHANGED <<sp3vars, purevars, hdrvars, recvars, fldvars>>

\* parse_sp3_data on the file and a second copy of it: the two assertions
Rec_Data ==
    /\ parser = "sp3records" /\ pc = "returned" /\ parse_flags = DefaultFlags
    /\ LET N == Len(sp3_records.epochs) + Len(sp3_records.epochs)
       IN  IF /\ Len(sp3_records.records) + Len(sp3_records.records) = N
              /\ Len(sp3_records.epochs \o sp3_records.epochs) = N
           THEN pc' = "data" /\ err' = err
           ELSE pc' = "raised" /\ err' = "AssertionError"
    /\ UNCHANGED <<parser, observations, system_obs_types, data, time, epoch_index,
                   dt, num_sats, sat_ids, sat_k, acc, nread, eof_at, consumed,
                   written, seen, obs_data>>
    /\ UNCHANGED <<sp3vars, purevars, hdrvars, recvars, fldvars>>

NextRecords == Rec_Line \/ Rec_Return \/ Rec_ToNdarray \/ Rec_Data

SpecRecords == InitRecords /\ [][NextRecords]_vars

\* ------------------------------------------------ RINEX 3 value transform
\* CONSTELLATION_IDS and OBSERVATION_DATATYPES of rinex3.py (lines 6-74) are
\* the tables of rinex2.py, entry for entry.
\* number of epochs of the parsed data handed to the transform
MaxEp3 == 2
\* RINEX 3 observation codes: type, band, tracking mode
C1C == <<"C", "1", "C">>
C1W == <<"C", "1", "W">>
L1C == <<"L", "1", "C">>
\* the observation types a header declares for GPS, in its order
ObsTypeLists3 == {<<C1C>>, <<C1C, C1W>>, <<C1C, L1C>>, <<C1C, C1W, L1C>>}
ObsValues3 == {"1.0", "2.0", NaN}

\* all functions from the codes of `keys` to lists of n values
ObsLists3(keys, n) ==
    [{keys[k] : k \in 1..Len(keys)} -> [1..n -> ObsValues3]]

\* what parse_RINEX3_obs_data returns for one GPS satellite seen in n
\* epochs: `keys` is the order of the dictionary's keys after 'index'
ParsedData3 ==
    UNION {{(G01 :> [index |-> [k \in 1..n |-> k - 1], keys |-> keys, obs |-> o]) :
                o \in ObsLists3(keys, n)} :
           keys \in ObsTypeLists3, n \in 1..MaxEp3}

\* the characters of the two-letter keys of OBSERVATION_DATATYPES
Spelling ==
    [C1 |-> <<"C", "1">>, P1 |-> <<"P", "1">>, L1 |-> <<"L", "1">>, D1 |-> <<"D", "1">>,
     S1 |-> <<"S", "1">>, C2 |-> <<"C", "2">>, P2 |-> <<"P", "2">>, L2 |-> <<"L", "2">>,
     D2 |-> <<"D", "2">>, S2 |-> <<"S", "2">>, C5 |-> <<"C", "5">>, P5 |-> <<"P", "5">>,
     L5 |-> <<"L", "5">>, D5 |-> <<"D", "5">>, S5 |-> <<"S", "5">>, C6 |-> <<"C", "6">>,
     P6 |-> <<"P", "6">>, L6 |-> <<"L", "6">>, D6 |-> <<"D", "6">>, S6 |-> <<"S", "6">>,
     C7 |-> <<"C", "7">>, P7 |-> <<"P", "7">>, L7 |-> <<"L", "7">>, D7 |-> <<"D", "7">>,
     S7 |-> <<"S", "7">>, C8 |-> <<"C", "8">>, P8 |-> <<"P", "8">>, L8 |-> <<"L", "8">>,
     D8 |-> <<"D", "8">>, S8 |-> <<"S", "8">>]
\* the keys of one table of OBSERVATION_DATATYPES equal to the string `two`
KeysSpelled(obs_datatypes, two) ==
    {key \in DOMAIN obs_datatypes : Spelling[key] = two}

\* numpy.all(numpy.isnan(val_arr))
AllNan(vals) == \A k \in DOMAIN vals : vals[k] = NaN

\* new_data[sat_id][sig_id][obs_name] = array(...), creating the signal first
SetSlot3(signals, sig_id, obs_name, values) ==
    IF sig_id \in DOMAIN signals
    THEN [signals EXCEPT ![sig_id] =
             [n \in DOMAIN @ \cup {obs_name} |-> IF n = obs_name THEN values ELSE @[n]]]
    ELSE signals @@ (sig_id :> (obs_name :> values))

\* lines 272-283: the loop `for obs_id in data[sat_id].keys()` after 'index',
\* from its k-th key on; obs_datatypes[obs_id[:2]] may be a KeyError
RECURSIVE Transform3Loop(_, _, _, _)
Transform3Loop(sat, rnx_sat, obs_datatypes, k) ==
    IF k > Len(rnx_sat.keys) \/ sat.raised THEN sat
    ELSE LET obs_id == rnx_sat.keys[k]
             val_arr == rnx_sat.obs[obs_id]
             found == KeysSpelled(obs_datatypes, SubSeq(obs_id, 1, 2))
         IN  IF AllNan(val_arr)
             THEN Transform3Loop(sat, rnx_sat, obs_datatypes, k + 1)
             ELSE IF found = {}
             THEN [sat EXCEPT !.raised = TRUE]
             ELSE LET obs_type == obs_datatypes[CHOOSE key \in found : TRUE]
                  IN  Transform3Loop(
                          [sat EXCEPT !.signals = SetSlot3(@, obs_type.signal,
                                                           obs_type.name, val_arr)],
                          rnx_sat, obs_datatypes, k + 1)

\* lines 266-284
transform_values_from_RINEX3_obs(rinex_data) ==
    LET sats == [sat_id \in DOMAIN rinex_data |->
                    LET constellation == CONSTELLATION_IDS[sat_id[1]]
                    IN  Transform3Loop([raised |-> FALSE, signals |-> EmptyFcn,
                                        index |-> rinex_data[sat_id].index],
                                       rinex_data[sat_id],
                                       OBSERVATION_DATATYPES[constellation], 1)]
    IN  IF \E sat_id \in DOMAIN sats : sats[sat_id].raised
        THEN [status |-> "raised", err |-> "KeyError"]
        ELSE [status |-> "ok", sats |-> sats]

InitTransform3 ==
    /\ parser = "transform3"
    /\ pc = "returned"
    /\ observations = <<>>
    /\ system_obs_types = EmptyFcn
    /\ data \in ParsedData3
    /\ time = <<>> /\ epoch_index = 0 /\ dt = 0
    /\ num_sats = 0 /\ sat_ids = <<>> /\ sat_k = 0 /\ acc = <<>>
    /\ nread = 0 /\ err = "" /\ eof_at = "none" /\ consumed = 0
    /\ written = EmptyFcn /\ seen = <<>> /\ obs_data = [status |-> "none"]
    /\ InitSp3Idle
    /\ InitPureIdle
    /\ InitHdrIdle
    /\ InitRecIdle
    /\ InitFldIdle

\* parse_RINEX3_obs_file: the parser's result is transformed
R3_Transform ==
    /\ parser = "transform3" /\ obs_data.status = "none"
    /\ obs_data' = transform_values_from_RINEX3_obs(data)
    /\ UNCHANGED <<parser, pc, observations, system_obs_types, data, time, epoch_index,
                   dt, num_sats, sat_ids, sat_k, acc, nread, err, eof_at, consumed,
                   written, seen>>
    /\ UNCHANGED <<sp3vars, purevars, hdrvars, recvars, fldvars>>

NextTransform3 == R3_Transform

SpecTransform3 == InitTransform3 /\ [][NextTransform3]_vars

\* ================================================================== claims
Digits == {"0", "1", "2", "3", "4", "5", "6", "7", "8", "9"}
\* the value a field of the file stands for: nan for a blank or unreadable one
ValueOf(f) == IF f \in {Blank, Bad} THEN NaN ELSE f
\* the observation types of the records of one key, in column order
ObsOrder(s) == IF parser = "rinex2" THEN observations ELSE system_obs_types[s[1]]
Ceil(n, c) == (n + c - 1) \div c

\* C1: when the parser returns on an input that ends between two epochs,
\* for every satellite (a key of three characters) and every position k,
\* every observation-type list of the satellite has a k-th value, and it is
\* the value of that field in the satellite's record at epoch index[k]
\* (nan when the field is blank).
C1_ValuesAligned ==
    (pc = "returned" /\ eof_at = "epoch") =>
        \A s \in {x \in DOMAIN data : Len(x) = 3} :
            /\ s \in DOMAIN written
            /\ Len(written[s]) = Len(data[s].index)
            /\ \A k \in 1..Len(data[s].index) :
                /\ written[s][k].epoch = data[s].index[k]
                /\ \A i \in 1..Len(ObsOrder(s)) :
                     ObsOrder(s)[i] \in DOMAIN data[s].obs =>
                        /\ k <= Len(data[s].obs[ObsOrder(s)[i]])
                        /\ data[s].obs[ObsOrder(s)[i]][k] = ValueOf(written[s][k].fields[i])

\* C2: when parse_RINEX2_obs_data returns (on an input that ends between
\* two epochs), every observation-type list of every satellite (a key of
\* three characters) is as long as the satellite's 'index' list and its
\* 'time' list.
C2_EqualLengths2 ==
    (parser = "rinex2" /\ pc = "returned" /\ eof_at = "epoch") =>
        \A s \in {x \in DOMAIN data : Len(x) = 3} :
            /\ Len(data[s].time) = Len(data[s].index)
            /\ \A o \in DOMAIN data[s].obs : Len(data[s].obs[o]) = Len(data[s].index)

\* C3: in parse_RINEX3_obs_data, between two satellite records and at
\* return, every observation-type list of every satellite seen so far is
\* exactly as long as the satellite's 'index' list.
C3_EqualLengths3 ==
    (parser = "rinex3" /\ pc \in {"epoch", "record", "returned"}) =>
        \A s \in DOMAIN data :
            \A o \in DOMAIN data[s].obs : Len(data[s].obs[o]) = Len(data[s].index)

\* a satellite with observation types was recorded, was absent from an
\* epoch and was recorded again, with a blank field in one of the records
C3_Reappeared ==
    /\ parser = "rinex3" /\ pc = "returned"
    /\ \E s \in DOMAIN data :
        /\ Len(data[s].index) = 2
        /\ data[s].index[2] > data[s].index[1] + 1
        /\ \E o \in DOMAIN data[s].obs : data[s].obs[o] = <<NaN, "1.0">>

\* C4: an observation parser never returns a result when the input ends
\* while it is not waiting for an epoch line.
C4_TruncationIsAnError == pc = "returned" => eof_at = "epoch"

\* C5: the number of physical lines parse_RINEX2_obs_data reads for one
\* satellite's record is ceil(len(observations) / 5) whenever the list of
\* observations is not empty.
C5_LinesPerRecord ==
    (parser = "rinex2" /\ consumed > 0 /\ Len(observations) >= 1) =>
        consumed = Ceil(Len(observations), FieldsPerLine)

\* C10: every key of data is a one-character prefix followed by two digits.
C10_KeysZeroFilled ==
    \A s \in DOMAIN data : Len(s) = 3 /\ s[2] \in Digits /\ s[3] \in Digits

\* ---- SP3
Sorted(a) == \A i \in 1..(Len(a) - 1) : a[i] <= a[i + 1]
StrictlyIncreasing(a) == \A i \in 1..(Len(a) - 1) : a[i] < a[i + 1]
Elems(a) == {a[i] : i \in 1..Len(a)}
\* the tuple a source record holds for a vehicle, all nan when it has none
RowOf(entry, veh) == IF veh \in DOMAIN entry.record THEN entry.record[veh] ELSE NaNRow
\* the first record with epoch e in concatenation order
FirstWith(e) ==
    LET all == Flatten(filepaths)
    IN  all[CHOOSE i \in 1..Len(all) :
                all[i].epoch = e /\ \A h \in 1..(i - 1) : all[h].epoch # e]

\* C6: the epoch axis parse_sp3_data returns is strictly increasing and
\* holds every distinct epoch value of the input files (so exactly once).
C6_EpochAxis ==
    merged.status = "ok" =>
        /\ StrictlyIncreasing(merged.all_epochs)
        /\ Elems(merged.all_epochs) = Elems(EpochsOf(filepaths))

\* an unsorted input with a repeated epoch and two close distinct epochs
C6_UnsortedWithDuplicate ==
    /\ merged.status = "ok"
    /\ ~Sorted(EpochsOf(filepaths))
    /\ Len(merged.all_epochs) = 2
    /\ Len(EpochsOf(filepaths)) = 3

\* C7: the row retained for every epoch of the result is the row of the
\* first record with that epoch in concatenation order.
C7_FirstOccurrenceKept ==
    merged.status = "ok" =>
        \A veh \in DOMAIN merged.data :
            \A j \in 1..Len(merged.all_epochs) :
                merged.data[veh][j] = RowOf(FirstWith(merged.all_epochs[j]), veh)

\* C8: parse_sp3_data on two identical copies of a file returns the epoch
\* axis and the arrays it returns on the file alone.
C8_Idempotent ==
    (Len(filepaths) = 1 /\ merged.status = "ok" /\ doubled.status = "ok") =>
        /\ doubled.all_epochs = merged.all_epochs
        /\ doubled.data = merged.data

\* C9: the result holds an array for every vehicle of the input (that the
\* sat_ids argument admits); every array has one row per entry of the
\* epoch axis; and for every entry j there is one source record with that
\* epoch of which row j of every vehicle is the tuple, or all nan when the
\* record has no entry for the vehicle.
C9_RowsAligned ==
    merged.status = "ok" =>
        /\ DOMAIN merged.data =
             {veh \in Vehicles :
                /\ sat_ids_arg.all \/ veh \in sat_ids_arg.ids
                /\ \E f \in 1..Len(filepaths) : \E i \in 1..Len(filepaths[f]) :
                     veh \in DOMAIN filepaths[f][i].record}
        /\ \A veh \in DOMAIN merged.data : Len(merged.data[veh]) = Len(merged.all_epochs)
        /\ \A j \in 1..Len(merged.all_epochs) :
             \E f \in 1..Len(filepaths) : \E i \in 1..Len(filepaths[f]) :
                /\ filepaths[f][i].epoch = merged.all_epochs[j]
                /\ \A veh \in DOMAIN merged.data :
                     merged.data[veh][j] = RowOf(filepaths[f][i], veh)

\* a vehicle of the first file gets an all-nan row for an epoch that only
\* the second file holds, in which the vehicle never appears
C9_AbsentFromFile ==
    /\ merged.status = "ok" /\ Len(filepaths) = 2
    /\ \E veh \in DOMAIN merged.data : \E j \in 1..Len(merged.all_epochs) :
        /\ merged.data[veh][j] = NaNRow
        /\ \E i \in 1..Len(filepaths[1]) : veh \in DOMAIN filepaths[1][i].record
        /\ \A i \in 1..Len(filepaths[1]) : filepaths[1][i].epoch # merged.all_epochs[j]
        /\ \A i \in 1..Len(filepaths[2]) : veh \notin DOMAIN filepaths[2][i].record
        /\ \E veh2 \in DOMAIN merged.data : merged.data[veh2][j] # NaNRow

\* C11: a non-blank field that float() cannot convert never makes the record
\* decoder raise: parse_RINEX3_obs_data decodes it as NaN and goes on
C11_BadFieldNeverRaises == parser = "rinex3" => err # "ValueError"

\* C12: when the seconds field of an epoch line has a non-zero digit after
\* the sixth decimal, the epoch assembler raises instead of truncating
C12_SubMicrosecondIsAnError ==
    (parser = "epoch" /\ ep_result.status # "none" /\ IntOf(ep_line.rest) # 0)
        => ep_result.status = "raised"

\* C14 as stated: the two-digit year 98 of a RINEX 2 epoch line, with the
\* century base 2000, resolves to the year 1998
C14_Year98Is1998 ==
    (ep_result.status = "ok" /\ ep_result.by = "rinex2"
        /\ ep_line.yy = 98 /\ ep_line.century = 2000)
        => ep_result.year = 1998

\* C14 amended: the two-digit year 98 of a RINEX 2 epoch line, with the
\* century base 2000, resolves to the year 2098 (the base is added)
C14_Year98Is2098 ==
    (ep_result.status = "ok" /\ ep_result.by = "rinex2"
        /\ ep_line.yy = 98 /\ ep_line.century = 2000)
        => ep_result.year = 2098

C14_Assembled98 ==
    /\ ep_result.status = "ok" /\ ep_result.by = "rinex2"
    /\ ep_line.yy = 98 /\ ep_line.century = 2000

\* C15: for every two-digit year yy and every century base c, the year of a
\* RINEX 2 epoch line and of a navigation record is exactly c + yy
C15_YearIsBasePlusYY ==
    (ep_result.status = "ok" /\ ep_result.by \in {"rinex2", "nav"})
        => ep_result.year = ep_line.century + ep_line.yy

\* a navigation record of year 85 assembled with the base 2000: 2085
C15_LateYearNotInferred ==
    /\ ep_result.status = "ok" /\ ep_result.by = "nav"
    /\ ep_line.yy = 85 /\ ep_line.century = 2000
    /\ ep_result.year = 2085

\* C13: in the SP3 record decoder a field exactly eps away from the sentinel
\* 999999.999999 decodes as NaN, and a field 1.01 * eps away decodes as a
\* number
C13_SentinelBoundary ==
    sp3_result.status = "ok" =>
        /\ Abs(sp3_line.c.v - NanValue) = Eps => sp3_result.clock.nan
        /\ Abs(sp3_line.x.v - NanValue) = Eps => sp3_result.x.nan
        /\ Abs(sp3_line.c.v - NanValue) = (Eps * 101) \div 100 => ~sp3_result.clock.nan
        /\ Abs(sp3_line.x.v - NanValue) = (Eps * 101) \div 100 => ~sp3_result.x.nan

\* the observation-type declaration lines among the header lines of a file
Declarations(lines) ==
    {j \in 1..Len(HeaderLines(lines)) : lines[j] \in {"types", "types_cont"}}

\* C16: parse_RINEX2_obs_file and parse_RINEX3_obs_file, given a file whose
\* header (closed by END OF HEADER) has no observation-type declaration,
\* raise the header error and do not call the data parser, whatever the data
\* section holds
C16_MissingObsTypesIsHeaderError ==
    (file_result.status # "none" /\ file_result.by \in {"rinex2", "rinex3"}
        /\ (\E j \in 1..Len(file_lines) : file_lines[j] = "end")
        /\ Declarations(file_lines) = {})
        => (file_result.status = "raised" /\ file_result.err = "HeaderError")

\* C17: every parse_*_file function, given a file with zero lines, raises a
\* dedicated empty-file error before any header or record processing
C17_EmptyFileError ==
    (file_result.status # "none" /\ file_lines = <<>>)
        => (file_result.status = "raised" /\ file_result.err = "EmptyFile")

\* C18: in parse_RINEX3_obs_data a satellite record whose system letter has
\* no entry in system_obs_types ends the parse with KeyError at that line:
\* nothing is read after it, and no key of an unknown system is ever decoded
C18_UnknownSystemAborts ==
    parser = "rinex3" =>
        /\ \A k \in 1..Len(seen) :
             (seen[k].kind = "sat" /\ seen[k].at = "record"
                 /\ seen[k].sys \notin DOMAIN system_obs_types)
             => (pc = "raised" /\ err = "KeyError" /\ k = Len(seen))
        /\ \A sat_id \in DOMAIN data : sat_id[1] \in DOMAIN system_obs_types

\* a record of an unknown system is read after other records were decoded
C18_UnknownAfterKnown ==
    /\ parser = "rinex3" /\ pc = "raised" /\ err = "KeyError"
    /\ Len(seen) > 0 /\ seen[Len(seen)].kind = "sat"
    /\ DOMAIN data # {}

\* C19: in parse_RINEX3_obs_data, when an epoch line declares n satellites
\* and the number of lines before the next '>' line is not n, the parse has
\* raised: it never goes on (or returns) past such an epoch
C19_MiscountRaises ==
    (parser = "rinex3" /\ pc # "raised") =>
        \A p, q \in 1..Len(seen) :
            (/\ p < q /\ seen[p].kind = "epoch" /\ seen[q].kind = "epoch"
             /\ \A k \in (p + 1)..(q - 1) : seen[k].kind # "epoch")
            => q - p - 1 = seen[p].n

\* the next '>' line arrives after fewer records than the epoch declared
C19_TooFewRecords ==
    /\ parser = "rinex3" /\ pc = "raised"
    /\ Len(seen) >= 3
    /\ seen[Len(seen)].kind = "epoch" /\ seen[Len(seen)].at = "record"
    /\ seen[Len(seen) - 1].kind = "sat"

\* C20: in what transform_values_from_RINEX2_obs returns, for every
\* satellite (a key of three characters of a known constellation) and every
\* recorded observation type that OBSERVATION_DATATYPES maps, the satellite's
\* signals hold the mapped signal, and under the mapped name the recorded
\* values
C20_MappedSignalsPresent ==
    (parser = "rinex2" /\ obs_data.status # "none") =>
        /\ obs_data.status = "ok"
        /\ \A s \in DOMAIN data :
             (Len(s) = 3 /\ s[1] \in DOMAIN CONSTELLATION_IDS) =>
                \A o \in DOMAIN data[s].obs :
                    LET table == OBSERVATION_DATATYPES[CONSTELLATION_IDS[s[1]]]
                    IN  o \in DOMAIN table =>
                          /\ table[o].signal \in DOMAIN obs_data.sats[s].signals
                          /\ table[o].name \in
                                DOMAIN obs_data.sats[s].signals[table[o].signal]
                          /\ obs_data.sats[s].signals[table[o].signal][table[o].name]
                                = data[s].obs[o]

\* the 'index' list of a key, empty while the key does not exist
IndexOf(d, s) == IF s \in DOMAIN d THEN d[s].index ELSE <<>>

\* C21: in both observation parsers the k-th epoch line scanned (from 0) is
\* given the ordinal k, which no other epoch line gets; at every point of
\* the scan every value of a satellite's 'index' list is a position of the
\* time list, the lists ascend, and a list only grows by the position in
\* `time` of the epoch line under which the record appears
C21_EpochOrdinals ==
    /\ [](/\ pc = "epoch" => epoch_index = Len(time)
          /\ pc \in {"satids", "record"} => epoch_index = Len(time) - 1
          /\ \A s \in DOMAIN data :
               \A k \in 1..Len(data[s].index) :
                  /\ data[s].index[k] \in 0..(Len(time) - 1)
                  /\ k > 1 => data[s].index[k - 1] <= data[s].index[k])
    /\ [][\A s \in DOMAIN data' :
             \/ IndexOf(data', s) = IndexOf(data, s)
             \/ IndexOf(data', s) = Append(IndexOf(data, s), Len(time') - 1)]_vars

\* a RINEX 2 input truncated inside the second epoch of a satellite
C21_TruncatedSecondEpoch ==
    /\ parser = "rinex2" /\ pc = "returned" /\ eof_at = "record"
    /\ \E s \in DOMAIN data : data[s].index = <<0, 1>>

\* C22: parse_RINEX2_obs_data, parse_RINEX3_obs_data and parse_RINEX3_header
\* end on every finite input, by returning or by raising
C22_Terminates == <>(pc \in {"returned", "raised"})

\* the header parser has returned after reading, inside the continuation
\* loop, a continuation line that holds no observation code
C22_BlankContinuation ==
    /\ parser = "header3" /\ pc = "returned" /\ nread >= 2
    /\ header_lines[1].has_count /\ header_lines[1].count > Len(header_lines[1].obs)
    /\ header_lines[2] \in ContLines3 /\ header_lines[2].obs = <<>>

\* C23: in parse_RINEX2_obs_data the value stored for a field depends only on
\* the value column of the field: two fields that differ only in the
\* loss-of-lock and signal-strength characters (columns 15 and 16) store the
\* same value.
C23_FlagsDoNotChangeValue ==
    field_vals.status = "done" => field_vals.a = field_vals.b

\* number of '*' lines among the first i record lines
StarsBefore(i) == Cardinality({j \in 1..i : record_lines[j].kind = "*"})
\* the lines of the block of line i that are parsed after it for the same vehicle
LaterWriters(i) ==
    {j \in (i + 1)..Len(record_lines) :
        /\ Parsed(record_lines[j], parse_flags)
        /\ record_lines[j].veh = record_lines[i].veh
        /\ StarsBefore(j) = StarsBefore(i)}

\* C24: whenever parse_sp3_records returns, the epochs list and the records
\* list have the same length (one entry per '*' line), every parsed 'P' line
\* is stored under its vehicle in the record of the most recent preceding '*'
\* line, every stored vehicle comes from a line of that block, and the length
\* assertions of parse_sp3_to_ndarray and parse_sp3_data do not fail.
C24_RecordsFollowEpochs ==
    /\ err # "AssertionError"
    /\ (parser = "sp3records" /\ pc \in {"returned", "ndarray", "data"}) =>
        /\ Len(sp3_records.epochs) = Len(sp3_records.records)
        /\ Len(sp3_records.records) = StarsBefore(Len(record_lines))
        /\ \A i \in 1..Len(record_lines) :
            (record_lines[i].kind = "P" /\ parse_flags.parse_position) =>
                /\ StarsBefore(i) >= 1
                /\ record_lines[i].veh \in DOMAIN sp3_records.records[StarsBefore(i)]
                /\ LaterWriters(i) = {} =>
                    sp3_records.records[StarsBefore(i)][record_lines[i].veh]
                        = TupleOf(Sp3ParsePositionAndClock(record_lines[i]))
        /\ \A k \in 1..Len(sp3_records.records) :
            \A v \in DOMAIN sp3_records.records[k] :
                \E i \in 1..Len(record_lines) :
                    /\ Parsed(record_lines[i], parse_flags)
                    /\ record_lines[i].veh = v /\ StarsBefore(i) = k
\* two epochs with a position each went through parse_sp3_to_ndarray
C24_TwoEpochsTwoPositions ==
    /\ parser = "sp3records" /\ pc = "ndarray"
    /\ Len(sp3_records.records) = 2
    /\ sp3_records.records[1] # EmptyFcn /\ sp3_records.records[2] # EmptyFcn
    /\ record_lines[2].kind = "P" /\ record_lines[4].kind = "P"

\* the (signal, observation name) slot the transform writes a code to
Slot3(sat_id, obs_id) ==
    LET obs_datatypes == OBSERVATION_DATATYPES[CONSTELLATION_IDS[sat_id[1]]]
        obs_type == obs_datatypes[CHOOSE key \in KeysSpelled(obs_datatypes, SubSeq(obs_id, 1, 2)) : TRUE]
    IN  <<obs_type.signal, obs_type.name>>
\* the codes of a satellite with at least one value that is not NaN
LiveCodes3(sat_id) ==
    {c \in DOMAIN data[sat_id].obs : ~AllNan(data[sat_id].obs[c])}

\* C25: in the output of transform_values_from_RINEX3_obs every observation
\* code of a satellite with at least one non-NaN value has its own array: the
\* slot it maps to holds its values, and no two distinct codes of one satellite
\* are written to the same (signal, observation name) slot.
C25_OneSlotPerCode ==
    (parser = "transform3" /\ obs_data.status = "ok") =>
        \A sat_id \in DOMAIN data : \A c \in LiveCodes3(sat_id) :
            /\ Slot3(sat_id, c)[1] \in DOMAIN obs_data.sats[sat_id].signals
            /\ Slot3(sat_id, c)[2] \in DOMAIN obs_data.sats[sat_id].signals[Slot3(sat_id, c)[1]]
            /\ obs_data.sats[sat_id].signals[Slot3(sat_id, c)[1]][Slot3(sat_id, c)[2]]
                   = data[sat_id].obs[c]
            /\ \A d \in LiveCodes3(sat_id) \ {c} : Slot3(sat_id, d) # Slot3(sat_id, c)

\* the 'P' lines of the epoch and vehicle of the line just read that were
\* the last to store a tuple for that vehicle before it
PositionsBefore ==
    {i \in 1..(nread - 1) :
        /\ record_lines[i].kind = "P" /\ parse_flags.parse_position
        /\ record_lines[i].veh = record_lines[nread].veh
        /\ StarsBefore(i) = StarsBefore(nread)
        /\ \A j \in (i + 1)..(nread - 1) :
            ~(/\ Parsed(record_lines[j], parse_flags)
              /\ record_lines[j].veh = record_lines[nread].veh)}

\* C26: in parse_sp3_records a 'V' line never changes the tuple stored for a
\* vehicle by a 'P' line of the same epoch, whatever the flags: right after
\* the 'V' line is processed the position tuple is still in the epoch's record.
C26_VelocityKeepsPosition ==
    (/\ parser = "sp3records" /\ pc = "loop" /\ nread >= 1
     /\ record_lines[nread].kind = "V") =>
        \A i \in PositionsBefore :
            /\ record_lines[i].veh \in DOMAIN sp3_records.records[Len(sp3_records.records)]
            /\ sp3_records.records[Len(sp3_records.records)][record_lines[i].veh]
                   = TupleOf(Sp3ParsePositionAndClock(record_lines[i]))

====
